---------------------------- MODULE Spec2Model ----------------------------
(***************************************************************************)
(* Cloud Chamber Trainer (cloud_chamber_gui.py): the geometry helpers      *)
(* (World.to_canvas, spiral, arc), the scenario catalog, the quiz state    *)
(* machine of GamePage and the view router of CloudChamberApp.             *)
(*                                                                         *)
(* Numbers.  Python floats are modelled as exact rationals <<n, d>> in     *)
(* lowest terms with d > 0.  math.pi is the rational 22/7; math.sin and    *)
(* math.cos are a fixed-point table: the argument is rounded to the        *)
(* nearest 1/70 rad (so that pi is 220 table steps and 0.1 rad is 7) and   *)
(* the value is a multiple of 1/10000.                                     *)
(*                                                                         *)
(* Strings.  Non-ASCII characters of the labels are transliterated:        *)
(* "mu" for the Greek mu, "gamma" for the Greek gamma, "-" for the minus   *)
(* sign, "->" for the arrow, "e+e-" for the superscripted pair.            *)
(***************************************************************************)
EXTENDS Integers, Sequences, FiniteSets

VARIABLES
    frame,       \* CloudChamberApp._frame: the kind of the active view
    live,        \* number of frames of each kind constructed and not destroyed
    running,     \* the Tk mainloop is running (Quit ends it)
    game,        \* the GamePage instance held by _frame, or NoPage
    clues,       \* the CluesPage instance held by _frame, or NoPage
    torn,        \* counters of the GamePage most recently destroyed, or NoPage
    messagebox,  \* the last messagebox.showinfo call, or NoBox
    sp,          \* spiral(): the call in progress (arguments, loop locals, pts)
    ar,          \* arc(): the call in progress (arguments, loop locals, pts)
    tc           \* World.to_canvas: the world, the canvas and the last two calls

vars == <<frame, live, running, game, clues, torn, messagebox, sp, ar, tc>>

----------------------------------------------------------------------------
(* Bounds of the model *)

\* on_submit counts at most this many rounds on one GamePage
MaxRounds == 2

\* largest sample count of the spiral calls enumerated besides the catalog's
MaxNpts == 4

----------------------------------------------------------------------------
(* Float arithmetic as exact rationals *)

Abs(n) == IF n < 0 THEN -n ELSE n

RECURSIVE GCD(_, _)
GCD(a, b) == IF b = 0 THEN a ELSE GCD(b, a % b)

\* the rational n/d in lowest terms, d # 0
Q(n, d) ==
    LET g == GCD(Abs(n), Abs(d))
        s == IF d < 0 THEN -1 ELSE 1
    IN  <<(s * n) \div g, (s * d) \div g>>

N(k) == <<k, 1>>

QNeg(a) == <<-a[1], a[2]>>

QAdd(a, b) ==
    LET g == GCD(a[2], b[2])
    IN  Q(a[1] * (b[2] \div g) + b[1] * (a[2] \div g), (a[2] \div g) * b[2])

QSub(a, b) == QAdd(a, QNeg(b))

\* cross-cancelled before multiplying, so that intermediate products stay small
QMul(a, b) ==
    LET g1 == GCD(Abs(a[1]), b[2])
        g2 == GCD(Abs(b[1]), a[2])
    IN  Q((a[1] \div g1) * (b[1] \div g2), (a[2] \div g2) * (b[2] \div g1))

\* a / b; Python raises ZeroDivisionError when b = 0, callers test for it
QDiv(a, b) == QMul(a, IF b[1] < 0 THEN <<-b[2], -b[1]>> ELSE <<b[2], b[1]>>)

QLess(a, b) == a[1] * b[2] < b[1] * a[2]

----------------------------------------------------------------------------
(* math.pi, math.sin, math.cos *)

\* table steps per radian
StepsPerRad == 70

\* math.pi = 22/7, i.e. 220 table steps
pi == Q(22, 7)

HalfTurn == 220

\* values of the table are multiples of 1/TrigScale
TrigScale == 10000

\* sin(k * pi / 220) * 10000, rounded, for k = 0 .. 110 (index k + 1)
SinTable ==
    <<0, 143, 286, 428, 571, 713, 856, 998, 1140, 1282,
      1423, 1564, 1705, 1846, 1986, 2126, 2265, 2404, 2542, 2680,
      2817, 2954, 3090, 3226, 3360, 3495, 3628, 3761, 3893, 4024,
      4154, 4284, 4412, 4540, 4667, 4792, 4917, 5041, 5164, 5286,
      5406, 5526, 5644, 5762, 5878, 5993, 6106, 6219, 6330, 6440,
      6549, 6656, 6762, 6866, 6969, 7071, 7171, 7270, 7367, 7463,
      7557, 7650, 7741, 7831, 7919, 8005, 8090, 8173, 8255, 8334,
      8413, 8489, 8563, 8636, 8707, 8777, 8844, 8910, 8974, 9036,
      9096, 9155, 9211, 9266, 9319, 9369, 9418, 9465, 9511, 9554,
      9595, 9634, 9671, 9707, 9740, 9771, 9801, 9828, 9854, 9877,
      9898, 9918, 9935, 9950, 9963, 9975, 9984, 9991, 9996, 9999,
      10000>>

\* the table step nearest to the angle th (radians)
Steps(th) ==
    LET u == QMul(th, N(StepsPerRad))
    IN  (2 * u[1] + u[2]) \div (2 * u[2])

\* sine of the table step k, by the symmetries of the quarter wave
SinStep(k) ==
    LET m == k % (2 * HalfTurn)
        q == HalfTurn \div 2
    IN  IF m <= q THEN SinTable[m + 1]
        ELSE IF m <= HalfTurn THEN SinTable[HalfTurn - m + 1]
        ELSE IF m <= HalfTurn + q THEN -SinTable[m - HalfTurn + 1]
        ELSE -SinTable[2 * HalfTurn - m + 1]

sin(th) == Q(SinStep(Steps(th)), TrigScale)

cos(th) == Q(SinStep(Steps(th) + HalfTurn \div 2), TrigScale)

----------------------------------------------------------------------------
(* World and World.to_canvas *)

\* World.__init__ with its default arguments
World == [xmin |-> N(-10), xmax |-> N(10), ymin |-> N(-10), ymax |-> N(10),
          margin |-> N(40)]

\* a mapper that forgets to flip the vertical axis
to_canvas_noflip(self, x, y, width, height) ==
    LET W == QSub(width, QMul(N(2), self.margin))
        H == QSub(height, QMul(N(2), self.margin))
        X == QAdd(self.margin,
                  QMul(QDiv(QSub(x, self.xmin), QSub(self.xmax, self.xmin)), W))
        Y == QAdd(self.margin,
                  QMul(QDiv(QSub(y, self.ymin), QSub(self.ymax, self.ymin)), H))
    IN  <<X, Y>>

\* World.to_canvas: world (x, y) -> canvas (X, Y)
to_canvas(self, x, y, width, height) ==
    LET W == QSub(width, QMul(N(2), self.margin))
        H == QSub(height, QMul(N(2), self.margin))
        X == QAdd(self.margin,
                  QMul(QDiv(QSub(x, self.xmin), QSub(self.xmax, self.xmin)), W))
        Y == QAdd(self.margin,
                  QMul(QDiv(QSub(self.ymax, y), QSub(self.ymax, self.ymin)), H))
    IN  <<X, Y>>

----------------------------------------------------------------------------
(* Curve generators.  A call is the record of its arguments; the loop body *)
(* of iteration i is an operator of the call, and the function's result is *)
(* the sequence of the points of iterations 0 .. npts-1.                   *)

SpiralCall(center, r_start, r_end, turns, ccw, npts, start_angle) ==
    [fn |-> "spiral", center |-> center, r_start |-> r_start, r_end |-> r_end,
     turns |-> turns, ccw |-> ccw, npts |-> npts, start_angle |-> start_angle]

ArcCall(center, radius, angle_start, angle_end, ccw, npts) ==
    [fn |-> "arc", center |-> center, radius |-> radius,
     angle_start |-> angle_start, angle_end |-> angle_end, ccw |-> ccw,
     npts |-> npts]

\* a theta1 that ignores the direction of rotation
spiral_theta1_ccwonly(c) ==
    QAdd(c.start_angle, QMul(QMul(N(2), pi), c.turns))

\* spiral(): theta1
spiral_theta1(c) ==
    QAdd(c.start_angle,
         IF c.ccw THEN QMul(QMul(N(2), pi), c.turns)
                  ELSE QMul(QMul(N(-2), pi), c.turns))

\* t = i / (npts-1) of both loops; npts = 1 raises ZeroDivisionError
loop_t(i, npts) == Q(i, npts - 1)

\* spiral(): th of iteration i
spiral_th(c, i) ==
    LET theta0 == c.start_angle
        theta1 == spiral_theta1(c)
    IN  QAdd(theta0, QMul(loop_t(i, c.npts), QSub(theta1, theta0)))

\* spiral(): r of iteration i
spiral_r(c, i) ==
    QAdd(c.r_start, QMul(loop_t(i, c.npts), QSub(c.r_end, c.r_start)))

\* the point at distance r and angle th from center
polar(center, r, th) ==
    <<QAdd(center[1], QMul(r, cos(th))), QAdd(center[2], QMul(r, sin(th)))>>

\* spiral(): the point (x, y) appended by iteration i
spiral_point(c, i) == polar(c.center, spiral_r(c, i), spiral_th(c, i))

\* arc(): th1
arc_th1(c) ==
    IF c.ccw THEN c.angle_end
             ELSE QSub(c.angle_start, QSub(c.angle_end, c.angle_start))

\* arc(): th of iteration i
arc_th(c, i) ==
    LET th0 == c.angle_start
        th1 == arc_th1(c)
    IN  QAdd(th0, QMul(loop_t(i, c.npts), QSub(th1, th0)))

\* arc(): the point (x, y) appended by iteration i
arc_point(c, i) == polar(c.center, c.radius, arc_th(c, i))

\* the polyline a call returns: samples 0 .. npts-1 at indices 1 .. npts
points(c) ==
    [k \in 1..c.npts |->
        IF c.fn = "spiral" THEN spiral_point(c, k - 1) ELSE arc_point(c, k - 1)]

----------------------------------------------------------------------------
(* Text content *)

CHOICES ==
    <<"electron (e-)",
      "positron (e+)",
      "muon (mu-)",
      "muon (mu+)",
      "photon (gamma) -> e+e- pair",
      "proton (p)",
      "neutron (n) (no visible primary track)">>

TRACK_COLOR == "crimson"

----------------------------------------------------------------------------
(* Drawing.  A canvas is [width, height, items], the display list: an     *)
(* item is what the drawing code puts on the canvas, in world coordinates:  *)
(* its kind, the world points at it is anchored to, its line width and      *)
(* fill.  A track's item holds pts, the generator call whose points         *)
(* polyline() draws.  draw_Bfield and draw_axes are one item each.  The     *)
(* mapping of world points to pixels, World.to_canvas, is examined on its   *)
(* own in SpecCanvas.                                                       *)

NoCall == [fn |-> "none"]

Item(kind, at, pts, width, fill) ==
    [kind |-> kind, at |-> at, pts |-> pts, width |-> width, fill |-> fill]

create(canvas, item) == [canvas EXCEPT !.items = Append(@, item)]

draw_axes(canvas, world) == create(canvas, Item("axes", << >>, NoCall, 1, ""))

draw_Bfield(canvas, world) ==
    create(canvas, Item("Bfield", << >>, NoCall, 1, ""))

polyline(canvas, pts, world, width) ==
    create(canvas, Item("line", << >>, pts, width, TRACK_COLOR))

\* GamePage.draw_background and CluesPage.draw_background (the same code)
draw_background(canvas, world) ==
    LET c1 == draw_axes(draw_Bfield([canvas EXCEPT !.items = << >>], world),
                        world)
    IN  [c1 EXCEPT !.items = @ \o
          << Item("line", << <<N(0), <<-1, 2>> >>, <<N(0), <<1, 2>> >> >>,
                  NoCall, 3, ""),
             Item("text", << <<N(0), <<1, 2>> >> >>, NoCall, 0, "") >>]

----------------------------------------------------------------------------
(* Scenarios: make_scenarios() and its draw closures *)

THIN == 2

THICK == 5

\* y0, the ordinate the tracks start at
y0 == N(0)

\* draw_eplus: the spiral call
draw_eplus_pts ==
    LET r_start == N(3)
        r_end   == Q(3, 5)
    IN  SpiralCall(<<QNeg(r_start), y0>>, r_start, r_end, Q(16, 5), TRUE, 500,
                   N(0))

draw_eplus(canvas, world) == polyline(canvas, draw_eplus_pts, world, THIN)

\* draw_eminus: the spiral call
draw_eminus_pts ==
    LET r_start == N(3)
        r_end   == Q(3, 5)
    IN  SpiralCall(<<r_start, y0>>, r_start, r_end, Q(16, 5), FALSE, 500, pi)

draw_eminus(canvas, world) == polyline(canvas, draw_eminus_pts, world, THIN)

\* draw_muminus: the arc call
draw_muminus_pts ==
    LET r == N(20)
    IN  ArcCall(<<r, y0>>, r, pi, QSub(pi, Q(1, 2)), FALSE, 160)

draw_muminus(canvas, world) == polyline(canvas, draw_muminus_pts, world, THIN)

\* draw_muplus: the arc call
draw_muplus_pts ==
    LET r == N(20)
    IN  ArcCall(<<QNeg(r), y0>>, r, N(0), Q(1, 2), TRUE, 160)

draw_muplus(canvas, world) == polyline(canvas, draw_muplus_pts, world, THIN)

\* draw_proton: the arc call
draw_proton_pts ==
    LET r == N(20)
    IN  ArcCall(<<QNeg(r), y0>>, r, N(0), Q(1, 2), TRUE, 160)

draw_proton(canvas, world) == polyline(canvas, draw_proton_pts, world, THICK)

\* draw_gamma_pair: pts1, the arc call of the e+ arm
draw_gamma_pair_pts1 ==
    LET r == N(6)
    IN  ArcCall(<<QSub(N(0), r), N(0)>>, r, N(0), Q(9, 10), TRUE, 120)

\* draw_gamma_pair: pts2, the arc call of the e- arm
draw_gamma_pair_pts2 ==
    LET r == N(6)
    IN  ArcCall(<<QAdd(N(0), r), N(0)>>, r, pi, QSub(pi, Q(9, 10)), FALSE, 120)

draw_gamma_pair(canvas, world) ==
    LET c1 == polyline(canvas, draw_gamma_pair_pts1, world, THIN)
        c2 == polyline(c1, draw_gamma_pair_pts2, world, THIN)
    IN  create(c2, Item("oval", << <<N(0), N(0)>> >>, NoCall, 0, "black"))

draw_neutron(canvas, world) == canvas

\* a catalog whose muon (mu+) entry carries the proton's label
make_scenarios_duplicate ==
    << [answer  |-> "positron (e+)",
        explain |-> "Left-curving tight spiral => low-p, positive, light -> e+.",
        tags    |-> [sign |-> "+", curv |-> "tight", ion |-> "faint",
                     special |-> "None"],
        draw    |-> "draw_eplus"],
       [answer  |-> "electron (e-)",
        explain |-> "Right-curving tight spiral => low-p, negative, very light -> e-.",
        tags    |-> [sign |-> "-", curv |-> "tight", ion |-> "faint",
                     special |-> "None"],
        draw    |-> "draw_eminus"],
       [answer  |-> "muon (mu-)",
        explain |-> "Long gentle right arc; thin ionization -> high-p negative MIP -> mu-.",
        tags    |-> [sign |-> "-", curv |-> "gentle", ion |-> "thin",
                     special |-> "None"],
        draw    |-> "draw_muminus"],
       [answer  |-> "proton (p)",
        explain |-> "Long gentle left arc; thin ionization -> high-p positive MIP -> mu+.",
        tags    |-> [sign |-> "+", curv |-> "gentle", ion |-> "thin",
                     special |-> "None"],
        draw    |-> "draw_muplus"],
       [answer  |-> "proton (p)",
        explain |-> "Left gentle arc with heavy dE/dx (thick) -> slow heavy positive -> proton.",
        tags    |-> [sign |-> "+", curv |-> "gentle", ion |-> "thick",
                     special |-> "None"],
        draw    |-> "draw_proton"],
       [answer  |-> "photon (gamma) -> e+e- pair",
        explain |-> "No incoming track; displaced V with opposite-curving faint arms -> gamma conversion to e+e-.",
        tags    |-> [sign |-> "0", curv |-> "pair", ion |-> "faint",
                     special |-> "conversion"],
        draw    |-> "draw_gamma_pair"],
       [answer  |-> "neutron (n) (no visible primary track)",
        explain |-> "No charged track; neutral particle. (Sometimes a short recoil stub.)",
        tags    |-> [sign |-> "0", curv |-> "none", ion |-> "none",
                     special |-> "None"],
        draw    |-> "draw_neutron"] >>

\* make_scenarios(): the draw closure of an entry is named, and called by draw()
make_scenarios ==
    << [answer  |-> "positron (e+)",
        explain |-> "Left-curving tight spiral => low-p, positive, light -> e+.",
        tags    |-> [sign |-> "+", curv |-> "tight", ion |-> "faint",
                     special |-> "None"],
        draw    |-> "draw_eplus"],
       [answer  |-> "electron (e-)",
        explain |-> "Right-curving tight spiral => low-p, negative, very light -> e-.",
        tags    |-> [sign |-> "-", curv |-> "tight", ion |-> "faint",
                     special |-> "None"],
        draw    |-> "draw_eminus"],
       [answer  |-> "muon (mu-)",
        explain |-> "Long gentle right arc; thin ionization -> high-p negative MIP -> mu-.",
        tags    |-> [sign |-> "-", curv |-> "gentle", ion |-> "thin",
                     special |-> "None"],
        draw    |-> "draw_muminus"],
       [answer  |-> "muon (mu+)",
        explain |-> "Long gentle left arc; thin ionization -> high-p positive MIP -> mu+.",
        tags    |-> [sign |-> "+", curv |-> "gentle", ion |-> "thin",
                     special |-> "None"],
        draw    |-> "draw_muplus"],
       [answer  |-> "proton (p)",
        explain |-> "Left gentle arc with heavy dE/dx (thick) -> slow heavy positive -> proton.",
        tags    |-> [sign |-> "+", curv |-> "gentle", ion |-> "thick",
                     special |-> "None"],
        draw    |-> "draw_proton"],
       [answer  |-> "photon (gamma) -> e+e- pair",
        explain |-> "No incoming track; displaced V with opposite-curving faint arms -> gamma conversion to e+e-.",
        tags    |-> [sign |-> "0", curv |-> "pair", ion |-> "faint",
                     special |-> "conversion"],
        draw    |-> "draw_gamma_pair"],
       [answer  |-> "neutron (n) (no visible primary track)",
        explain |-> "No charged track; neutral particle. (Sometimes a short recoil stub.)",
        tags    |-> [sign |-> "0", curv |-> "none", ion |-> "none",
                     special |-> "None"],
        draw    |-> "draw_neutron"] >>

\* s["draw"](canvas, world): the call of a scenario's draw closure
draw(s, canvas, world) ==
    CASE s.draw = "draw_eplus"      -> draw_eplus(canvas, world)
      [] s.draw = "draw_eminus"     -> draw_eminus(canvas, world)
      [] s.draw = "draw_muminus"    -> draw_muminus(canvas, world)
      [] s.draw = "draw_muplus"     -> draw_muplus(canvas, world)
      [] s.draw = "draw_proton"     -> draw_proton(canvas, world)
      [] s.draw = "draw_gamma_pair" -> draw_gamma_pair(canvas, world)
      [] s.draw = "draw_neutron"    -> draw_neutron(canvas, world)

\* the hint text built from a scenario's tags (show_example and on_submit):
\* each element is one tag_bits entry, as the pieces it is concatenated from
tag_bits(tags) ==
    IF tags.special = "conversion"
    THEN << <<"conversion V with opposite curvature">> >>
    ELSE (IF tags.sign \in {"+", "-"}
          THEN << <<"turns ",
                    IF tags.sign = "+" THEN "left (+)" ELSE "right (-)">> >>
          ELSE IF tags.sign = "0"
          THEN << <<"neutral (no primary)">> >>
          ELSE << >>)
         \o << <<tags.curv, " curvature">> >>
         \o (IF tags.ion # "none"
             THEN << <<tags.ion, " ionization">> >>
             ELSE << >>)

\* ', '.join(tag_bits), as pieces
join_tag_bits(bits) ==
    LET RECURSIVE J(_)
        J(k) == IF k > Len(bits) THEN << >>
                ELSE (IF k > 1 THEN <<", ">> ELSE << >>) \o bits[k] \o J(k + 1)
    IN  J(1)

----------------------------------------------------------------------------
(* GamePage *)

NoPage == [kind |-> "none"]

NoBox == [title |-> "", message |-> ""]

\* self.current = None
None == [answer |-> "None"]

\* tk.Canvas(self, width=720, height=680, ...) of GamePage.__init__
GameCanvas == [width |-> 720, height |-> 680, items |-> << >>]

\* a new_round that also clears the counters
new_round_reset(self, i) ==
    LET s1 == [self EXCEPT !.answered = FALSE,
                           !.choice_var = "",
                           !.rounds = 0,
                           !.score = 0,
                           !.msg = <<"Pick the particle based on curvature (sign), radius (momentum), and line width (dE/dx).">>,
                           !.canvas = draw_background(@, self.world)]
        s2 == [s1 EXCEPT !.current = s1.scenarios[i]]
    IN  [s2 EXCEPT !.canvas = draw(s2.current, @, s2.world)]

\* GamePage.new_round, random.choice returning self.scenarios[i]
new_round(self, i) ==
    LET s1 == [self EXCEPT !.answered = FALSE,
                           !.choice_var = "",
                           !.msg = <<"Pick the particle based on curvature (sign), radius (momentum), and line width (dE/dx).">>,
                           !.canvas = draw_background(@, self.world)]
        s2 == [s1 EXCEPT !.current = s1.scenarios[i]]
    IN  [s2 EXCEPT !.canvas = draw(s2.current, @, s2.world)]

\* str() of a non-negative integer: its decimal digits
RECURSIVE str(_)
str(n) ==
    LET digit == <<"0", "1", "2", "3", "4", "5", "6", "7", "8", "9">>
    IN  IF n < 10 THEN <<digit[n + 1]>>
        ELSE str(n \div 10) \o <<digit[(n % 10) + 1]>>

\* an update_score that leaves the label as it was
update_score_stale(self) == self

\* GamePage.update_score: the label text, as the pieces of the f-string
update_score(self) ==
    [self EXCEPT !.score_lbl =
        <<"Score: ">> \o str(self.score) \o <<"/">> \o str(self.rounds)]

\* a GamePage that takes up the counters of the page destroyed before it
GamePage_persist(i) ==
    new_round([kind       |-> "GamePage",
               world      |-> World,
               scenarios  |-> make_scenarios,
               current    |-> None,
               rounds     |-> IF torn.kind = "GamePage" THEN torn.rounds ELSE 0,
               score      |-> IF torn.kind = "GamePage" THEN torn.score ELSE 0,
               answered   |-> FALSE,
               canvas     |-> GameCanvas,
               choice_var |-> "",
               msg        |-> << >>,
               score_lbl  |-> <<"Score: ", "0", "/", "0">>], i)

\* GamePage.__init__, its new_round choosing self.scenarios[i]
GamePage(i) ==
    new_round([kind       |-> "GamePage",
               world      |-> World,
               scenarios  |-> make_scenarios,
               current    |-> None,
               rounds     |-> 0,
               score      |-> 0,
               answered   |-> FALSE,
               canvas     |-> GameCanvas,
               choice_var |-> "",
               msg        |-> << >>,
               score_lbl  |-> <<"Score: ", "0", "/", "0">>], i)

\* a counted submit that forgets self.rounds += 1
counted_submit_norounds(self) ==
    LET sel     == self.choice_var
        s1      == self
        correct == (sel = s1.current.answer)
        s2      == [s1 EXCEPT !.score = IF correct THEN @ + 1 ELSE @,
                              !.answered = TRUE]
        verdict == IF correct THEN "v Correct!" ELSE "x Not quite."
        text    == <<"Answer: ", s2.current.answer, "\n\n", verdict, "\n\n",
                     "Reasoning: ", s2.current.explain, "\n\n", "Clues: ">>
                   \o join_tag_bits(tag_bits(s2.current.tags))
    IN  update_score([s2 EXCEPT !.msg = text])

\* a counted submit that scores every answer
counted_submit_always(self) ==
    LET sel     == self.choice_var
        s1      == [self EXCEPT !.rounds = @ + 1]
        correct == TRUE
        s2      == [s1 EXCEPT !.score = IF correct THEN @ + 1 ELSE @,
                              !.answered = TRUE]
        verdict == IF correct THEN "v Correct!" ELSE "x Not quite."
        text    == <<"Answer: ", s2.current.answer, "\n\n", verdict, "\n\n",
                     "Reasoning: ", s2.current.explain, "\n\n", "Clues: ">>
                   \o join_tag_bits(tag_bits(s2.current.tags))
    IN  update_score([s2 EXCEPT !.msg = text])

\* GamePage.on_submit past its two guards: the submit that is counted
counted_submit(self) ==
    LET sel     == self.choice_var
        s1      == [self EXCEPT !.rounds = @ + 1]
        correct == (sel = s1.current.answer)
        s2      == [s1 EXCEPT !.score = IF correct THEN @ + 1 ELSE @,
                              !.answered = TRUE]
        verdict == IF correct THEN "v Correct!" ELSE "x Not quite."
        text    == <<"Answer: ", s2.current.answer, "\n\n", verdict, "\n\n",
                     "Reasoning: ", s2.current.explain, "\n\n", "Clues: ">>
                   \o join_tag_bits(tag_bits(s2.current.tags))
    IN  update_score([s2 EXCEPT !.msg = text])

\* guards that let an answered round be submitted again
submit_guard_noanswered(self) ==
    IF self.choice_var = "" THEN "prompt" ELSE "count"

\* the guards of on_submit: "return" (answered), "prompt" (no selection),
\* "count" otherwise
submit_guard(self) ==
    IF self.answered THEN "return"
    ELSE IF self.choice_var = "" THEN "prompt"
    ELSE "count"

----------------------------------------------------------------------------
(* CluesPage *)

\* tk.Canvas(body, width=700, height=600, ...) of CluesPage.__init__
CluesCanvas == [width |-> 700, height |-> 600, items |-> << >>]

\* CluesPage.__init__
CluesPage ==
    [kind      |-> "CluesPage",
     world     |-> World,
     scenarios |-> make_scenarios,
     canvas    |-> draw_background(CluesCanvas, World),
     clue_lbl  |-> << >>]

\* CluesPage.show_example, random.choice returning self.scenarios[i]
CluesPage_show_example(self, i) ==
    LET s  == self.scenarios[i]
        c1 == draw_background(self.canvas, self.world)
    IN  [self EXCEPT !.canvas = draw(s, c1, self.world),
                     !.clue_lbl = <<"Clues: ">> \o join_tag_bits(tag_bits(s.tags))]

----------------------------------------------------------------------------
(* CloudChamberApp: the view router, and the handlers of the active view *)

Views == {"title", "clues", "game"}

\* a _swap that never destroys the frame it replaces
swap_live_nodestroy(old, new) ==
    [live EXCEPT ![new] = @ + 1]

\* CloudChamberApp._swap on the widget counts: the new frame was constructed
\* by the caller, the old one is destroyed
swap_live(old, new) ==
    [k \in Views |->
        (live[k] + (IF k = new THEN 1 ELSE 0)) - (IF k = old THEN 1 ELSE 0)]

\* the state of the generator and mapper calls while none is in progress
Idle == [pc |-> "idle"]

\* CloudChamberApp.show_game (Play on the title page)
show_game ==
    /\ running /\ frame = "title"
    /\ \E i \in 1..Len(make_scenarios) : game' = GamePage(i)
    /\ live' = swap_live(frame, "game")
    /\ frame' = "game"
    /\ UNCHANGED <<running, clues, torn, messagebox, sp, ar, tc>>

\* CloudChamberApp.show_clues (Read the clues on the title page)
show_clues ==
    /\ running /\ frame = "title"
    /\ clues' = CluesPage
    /\ live' = swap_live(frame, "clues")
    /\ frame' = "clues"
    /\ UNCHANGED <<running, game, torn, messagebox, sp, ar, tc>>

\* CloudChamberApp.show_title (Quit to Title on the game page, Back on the
\* clues page); the destroyed page is no longer referenced
show_title ==
    /\ running /\ frame \in {"game", "clues"}
    /\ live' = swap_live(frame, "title")
    /\ frame' = "title"
    /\ IF frame = "game"
       THEN /\ torn' = [kind |-> "GamePage", rounds |-> game.rounds,
                        score |-> game.score]
            /\ game' = NoPage
            /\ UNCHANGED clues
       ELSE /\ clues' = NoPage
            /\ UNCHANGED <<game, torn>>
    /\ UNCHANGED <<running, messagebox, sp, ar, tc>>

\* Quit on the title page: self.quit ends the mainloop
Quit ==
    /\ running /\ frame = "title"
    /\ running' = FALSE
    /\ UNCHANGED <<frame, live, game, clues, torn, messagebox, sp, ar, tc>>

\* a click on a radio button sets choice_var to its value
Select ==
    /\ running /\ frame = "game"
    /\ \E k \in 1..Len(CHOICES) :
          game' = [game EXCEPT !.choice_var = CHOICES[k]]
    /\ UNCHANGED <<frame, live, running, clues, torn, messagebox, sp, ar, tc>>

\* GamePage.on_submit (Submit)
on_submit ==
    /\ running /\ frame = "game"
    /\ CASE submit_guard(game) = "return" -> UNCHANGED <<game, messagebox>>
         [] submit_guard(game) = "prompt" ->
              /\ messagebox' = [title |-> "Choose one",
                                message |-> "Please select an answer."]
              /\ UNCHANGED game
         [] submit_guard(game) = "count" ->
              /\ game.rounds < MaxRounds
              /\ game' = counted_submit(game)
              /\ UNCHANGED messagebox
    /\ UNCHANGED <<frame, live, running, clues, torn, sp, ar, tc>>

\* GamePage.on_next (Next)
on_next ==
    /\ running /\ frame = "game"
    /\ \E i \in 1..Len(game.scenarios) : game' = new_round(game, i)
    /\ UNCHANGED <<frame, live, running, clues, torn, messagebox, sp, ar, tc>>

\* GamePage.show_help (Help)
show_help ==
    /\ running /\ frame = "game"
    /\ messagebox' = [title |-> "How to read the clues", message |-> "HELP"]
    /\ UNCHANGED <<frame, live, running, game, clues, torn, sp, ar, tc>>

\* CluesPage.show_example (Show example)
show_example ==
    /\ running /\ frame = "clues"
    /\ \E i \in 1..Len(clues.scenarios) :
          clues' = CluesPage_show_example(clues, i)
    /\ UNCHANGED <<frame, live, running, game, torn, messagebox, sp, ar, tc>>

\* CloudChamberApp.__init__: show_title() on an app with _frame = None
Init ==
    /\ frame = "title"
    /\ live = [k \in Views |-> IF k = "title" THEN 1 ELSE 0]
    /\ running = TRUE
    /\ game = NoPage
    /\ clues = NoPage
    /\ torn = NoPage
    /\ messagebox = NoBox
    /\ sp = Idle
    /\ ar = Idle
    /\ tc = Idle

Next ==
    \/ show_game
    \/ show_clues
    \/ show_title
    \/ Quit
    \/ Select
    \/ on_submit
    \/ on_next
    \/ show_help
    \/ show_example

Spec == Init /\ [][Next]_vars

----------------------------------------------------------------------------
(* spiral() run one loop iteration at a time *)

\* the state of the application while a generator or the mapper is examined
AppIdle ==
    /\ frame = "title"
    /\ live = [k \in Views |-> IF k = "title" THEN 1 ELSE 0]
    /\ running = TRUE
    /\ game = NoPage
    /\ clues = NoPage
    /\ torn = NoPage
    /\ messagebox = NoBox

\* the spiral calls examined: those of the catalog, and small ones
SpiralCalls ==
    {draw_eplus_pts, draw_eminus_pts} \cup
    { SpiralCall(center, r_start, r_end, turns, ccw, npts, start_angle) :
        center \in {<<N(0), N(0)>>, <<N(-3), N(1)>>},
        r_start \in {N(0), N(3)},
        r_end \in {Q(3, 5), N(3)},
        turns \in {Q(1, 2), N(1), Q(16, 5)},
        ccw \in BOOLEAN,
        npts \in 0..MaxNpts,
        start_angle \in {N(0), pi, Q(1, 2)} }

InitSpiral ==
    /\ AppIdle
    /\ \E c \in SpiralCalls :
          sp = [pc |-> "loop", call |-> c, i |-> 0, th |-> N(0), r |-> N(0),
                pts |-> << >>]
    /\ ar = Idle
    /\ tc = Idle

\* one iteration of "for i in range(npts)"
spiral_iter ==
    /\ sp.pc = "loop" /\ sp.i < sp.call.npts /\ sp.call.npts - 1 # 0
    /\ LET th == spiral_th(sp.call, sp.i)
           r  == spiral_r(sp.call, sp.i)
       IN  sp' = [sp EXCEPT !.th = th, !.r = r, !.i = @ + 1,
                            !.pts = Append(@, polar(sp.call.center, r, th))]
    /\ UNCHANGED <<frame, live, running, game, clues, torn, messagebox, ar, tc>>

\* t = i / (npts-1) with npts = 1
spiral_raise ==
    /\ sp.pc = "loop" /\ sp.i < sp.call.npts /\ sp.call.npts - 1 = 0
    /\ sp' = [sp EXCEPT !.pc = "ZeroDivisionError"]
    /\ UNCHANGED <<frame, live, running, game, clues, torn, messagebox, ar, tc>>

\* return pts
spiral_return ==
    /\ sp.pc = "loop" /\ sp.i = sp.call.npts
    /\ sp' = [sp EXCEPT !.pc = "returned"]
    /\ UNCHANGED <<frame, live, running, game, clues, torn, messagebox, ar, tc>>

NextSpiral == spiral_iter \/ spiral_raise \/ spiral_return

SpecSpiral == InitSpiral /\ [][NextSpiral]_vars

----------------------------------------------------------------------------
(* arc() run one loop iteration at a time, on the calls of the catalog *)

ArcCalls ==
    {draw_muminus_pts, draw_muplus_pts, draw_proton_pts,
     draw_gamma_pair_pts1, draw_gamma_pair_pts2}

InitArc ==
    /\ AppIdle
    /\ sp = Idle
    /\ \E c \in ArcCalls :
          ar = [pc |-> "loop", call |-> c, i |-> 0, th |-> N(0), pts |-> << >>]
    /\ tc = Idle

\* one iteration of "for i in range(npts)"
arc_iter ==
    /\ ar.pc = "loop" /\ ar.i < ar.call.npts /\ ar.call.npts - 1 # 0
    /\ LET th == arc_th(ar.call, ar.i)
       IN  ar' = [ar EXCEPT !.th = th, !.i = @ + 1,
                            !.pts = Append(@, polar(ar.call.center,
                                                    ar.call.radius, th))]
    /\ UNCHANGED <<frame, live, running, game, clues, torn, messagebox, sp, tc>>

\* return pts
arc_return ==
    /\ ar.pc = "loop" /\ ar.i = ar.call.npts
    /\ ar' = [ar EXCEPT !.pc = "returned"]
    /\ UNCHANGED <<frame, live, running, game, clues, torn, messagebox, sp, tc>>

NextArc == arc_iter \/ arc_return

SpecArc == InitArc /\ [][NextArc]_vars

----------------------------------------------------------------------------
(* World.to_canvas applied to the points of a grid *)

\* the worlds examined: World() and other viewports with xmax > xmin,
\* ymax > ymin and margin >= 0
Worlds ==
    { [xmin |-> N(a[1]), xmax |-> N(a[2]), ymin |-> N(b[1]), ymax |-> N(b[2]),
       margin |-> N(m)] :
        a \in {<<-10, 10>>, <<0, 4>>}, b \in {<<-10, 10>>, <<-3, 6>>},
        m \in {0, 40} }

\* the abscissas and ordinates examined: the viewport's edges, and others
GridX(world) == {world.xmin, world.xmax, N(0), Q(7, 2)}

GridY(world) == {world.ymin, world.ymax, N(0), Q(-1, 2)}

InitCanvas ==
    /\ AppIdle
    /\ sp = Idle
    /\ ar = Idle
    /\ \E world \in Worlds, width \in {720, 700}, height \in {680, 600} :
          tc = [pc |-> "ready", world |-> world, width |-> N(width),
                height |-> N(height), calls |-> << >>]

\* a call world.to_canvas(x, y, width, height); the last two are kept
to_canvas_call ==
    /\ tc.pc = "ready"
    /\ \E x \in GridX(tc.world), y \in GridY(tc.world) :
          LET P == to_canvas(tc.world, x, y, tc.width, tc.height)
              c == [x |-> x, y |-> y, X |-> P[1], Y |-> P[2]]
          IN  tc' = [tc EXCEPT !.calls =
                        IF Len(@) < 2 THEN Append(@, c) ELSE <<@[2], c>>]
    /\ UNCHANGED <<frame, live, running, game, clues, torn, messagebox, sp, ar>>

NextCanvas == to_canvas_call

SpecCanvas == InitCanvas /\ [][NextCanvas]_vars

----------------------------------------------------------------------------
(* The quiz state machine and the router: properties of Spec *)

\* the verdict line of the feedback on_submit writes to msg
Verdict(msg) == msg[4]

ChooseOne == [title |-> "Choose one", message |-> "Please select an answer."]

\* the entries of the catalog
Catalog == {make_scenarios[i] : i \in 1..Len(make_scenarios)}

\* C1: on the game screen, whatever new_round, on_submit and on_next calls
\* were made since the page was constructed, 0 <= score <= rounds.
C1_ScoreWithinRounds ==
    frame = "game" => (0 <= game.score /\ game.score <= game.rounds)

\* C1 witness: a page on which a right and a wrong answer were both counted
C1_Witness ==
    frame = "game" /\ game.rounds = 2 /\ game.score = 1 /\ ~game.answered

\* C2: a step of on_submit taken when the round is already answered, or when
\* nothing is selected, leaves rounds, score, answered, the current scenario
\* and the selection (the whole page) unchanged; with nothing selected its
\* only effect is the "Please select an answer." prompt, and in an answered
\* round it has no effect at all.
C2_SubmitNoOp ==
    [][ (on_submit /\ (game.answered \/ game.choice_var = ""))
        => /\ game' = game
           /\ UNCHANGED <<frame, live, running, clues, torn>>
           /\ (game.choice_var = "" => messagebox' = ChooseOne)
           /\ (game.answered => messagebox' = messagebox) ]_vars

\* C2 witness: the prompt was shown by a submit without a selection, and the
\* round open now is answered, with another choice selected since
C2_Witness ==
    /\ frame = "game" /\ messagebox = ChooseOne
    /\ game.answered /\ game.choice_var # game.current.answer
    /\ game.score = 1 /\ game.rounds = 1

\* C3: a step of on_submit in an unanswered round with a selection adds
\* exactly 1 to rounds, sets answered, adds exactly 1 to score when the
\* selection equals the current scenario's answer and leaves score alone
\* otherwise, and the verdict says correct exactly when score was
\* incremented; on a fresh page showing muon (mu+), submitting proton (p)
\* gives rounds = 1, score = 0 and the incorrect verdict, and on a fresh page
\* showing proton (p), submitting proton (p) gives rounds = 1, score = 1,
\* answered.
C3_CountedSubmit ==
    [][ (on_submit /\ ~game.answered /\ game.choice_var # "")
        => /\ game'.rounds = game.rounds + 1
           /\ game'.answered
           /\ game'.score = game.score +
                 (IF game.choice_var = game.current.answer THEN 1 ELSE 0)
           /\ Verdict(game'.msg) \in {"v Correct!", "x Not quite."}
           /\ (Verdict(game'.msg) = "v Correct!"
                 <=> game'.score = game.score + 1)
           /\ ( ( /\ game.rounds = 0 /\ game.score = 0
                  /\ game.current.answer = "muon (mu+)"
                  /\ game.choice_var = "proton (p)" )
                => ( /\ game'.rounds = 1 /\ game'.score = 0
                     /\ Verdict(game'.msg) = "x Not quite." ) )
           /\ ( ( /\ game.rounds = 0 /\ game.score = 0
                  /\ game.current.answer = "proton (p)"
                  /\ game.choice_var = "proton (p)" )
                => ( /\ game'.rounds = 1 /\ game'.score = 1
                     /\ game'.answered ) ) ]_vars

\* C3 witness: muon (mu+) was shown on a fresh page and proton (p) submitted
C3_Witness ==
    /\ frame = "game" /\ game.answered
    /\ game.current.answer = "muon (mu+)" /\ game.choice_var = "proton (p)"
    /\ game.rounds = 1 /\ game.score = 0
    /\ Verdict(game.msg) = "x Not quite."

\* C4: on_next can be taken in every state of the game screen, answered or
\* not; after it answered is false, the selection is empty and the current
\* scenario is one of the 7 entries of the catalog, and rounds and score are
\* what they were.
C4_NextRound ==
    /\ [](frame = "game" => ENABLED on_next)
    /\ [][ on_next
           => /\ ~game'.answered
              /\ game'.choice_var = ""
              /\ game'.current \in Catalog
              /\ Cardinality(Catalog) = 7
              /\ game'.rounds = game.rounds
              /\ game'.score = game.score ]_vars

\* C4 witness: a round opened by on_next after a counted one
C4_Witness ==
    /\ frame = "game" /\ ~game.answered /\ game.choice_var = ""
    /\ game.rounds = 1 /\ game.score = 1

\* the answer labels of a list of scenarios
Answers(scenarios) == {scenarios[i].answer : i \in 1..Len(scenarios)}

\* the catalog a page holds has 7 entries with pairwise distinct answers,
\* which are exactly the 7 CHOICES
CatalogMatchesChoices(scenarios) ==
    /\ Len(scenarios) = 7
    /\ Cardinality(Answers(scenarios)) = 7
    /\ Len(CHOICES) = 7
    /\ Answers(scenarios) = {CHOICES[k] : k \in 1..Len(CHOICES)}

\* C5: the catalog every page gets from make_scenarios has exactly 7
\* scenarios, their answers are pairwise distinct and are exactly the 7
\* CHOICES of the radio buttons; so exactly one radio button scores for the
\* current scenario.
C5_CatalogChoices ==
    /\ frame = "game" =>
          /\ CatalogMatchesChoices(game.scenarios)
          /\ Cardinality({k \in 1..Len(CHOICES) :
                              CHOICES[k] = game.current.answer}) = 1
    /\ frame = "clues" => CatalogMatchesChoices(clues.scenarios)

\* C5 witness: the one scoring choice of the scenario shown was submitted
C5_Witness ==
    /\ frame = "game" /\ game.answered /\ game.score = 1 /\ game.rounds = 1
    /\ game.current.answer = "muon (mu+)"
    /\ game.choice_var = game.current.answer

\* C6: every step that opens a game screen opens it with rounds = 0,
\* score = 0, answered = false and a current scenario of the catalog,
\* whatever the counters of the game screen torn down before were.
C6_FreshCounters ==
    [][ (frame # "game" /\ frame' = "game")
        => /\ game'.rounds = 0
           /\ game'.score = 0
           /\ ~game'.answered
           /\ game'.current \in Catalog ]_vars

\* C6 witness: a game screen opened after one with counted rounds was torn
\* down
C6_Witness ==
    /\ frame = "game" /\ torn.kind = "GamePage"
    /\ torn.rounds = 2 /\ torn.score = 1
    /\ game.rounds = 0 /\ game.score = 0 /\ ~game.answered
    /\ game.current \in Catalog

\* the view transitions of the router
Transitions ==
    {<<"title", "game">>, <<"title", "clues">>,
     <<"game", "title">>, <<"clues", "title">>}

\* exactly one frame is alive, it is the active view, and the shell holds no
\* page of another view
OneActiveView ==
    /\ frame \in Views
    /\ \A k \in Views : live[k] = IF k = frame THEN 1 ELSE 0
    /\ (frame # "game" => game = NoPage)
    /\ (frame # "clues" => clues = NoPage)

\* C7: the shell routes over the three views title, clues and game; it
\* starts in title; the active view changes only by title->game,
\* title->clues, game->title and clues->title; after every transition
\* exactly one view is alive and active, and the view left has been
\* destroyed.
C7_Router ==
    /\ frame = "title"
    /\ Cardinality(Views) = 3
    /\ []OneActiveView
    /\ [][ frame' # frame
           => /\ <<frame, frame'>> \in Transitions
              /\ live'[frame] = 0 ]_vars

\* C7 witness: the title view, active again after a game view was destroyed
C7_Witness ==
    /\ frame = "title" /\ torn.kind = "GamePage"
    /\ live = [k \in Views |-> IF k = "title" THEN 1 ELSE 0]

\* the text f"Score: {score}/{rounds}", as its pieces
ScoreText(score, rounds) == <<"Score: ">> \o str(score) \o <<"/">> \o str(rounds)

\* C11: in every state of the game screen, whatever new_round, on_submit and
\* on_next calls were made, the text of the score label is
\* "Score: <score>/<rounds>" for the current values of score and rounds.
C11_ScoreLabelCurrent ==
    frame = "game" => game.score_lbl = ScoreText(game.score, game.rounds)

\* C11 witness: the label reads "Score: 1/2" in a round opened by on_next
\* after a right and a wrong answer were counted
C11_Witness ==
    /\ frame = "game" /\ ~game.answered /\ game.choice_var = ""
    /\ game.score = 1 /\ game.rounds = 2
    /\ game.score_lbl = <<"Score: ", "1", "/", "2">>

----------------------------------------------------------------------------
(* The curve generators and the mapper: properties of SpecArc, SpecSpiral  *)
(* and SpecCanvas                                                           *)

\* the point p with x negated and y unchanged
MirrorX(p) == <<QNeg(p[1]), p[2]>>

\* every point arc() has appended so far is the mirror image of the point of
\* the same sample index of the call other
MirrorsCall(other) ==
    \A k \in 1..Len(ar.pts) : ar.pts[k] = MirrorX(arc_point(other, k - 1))

\* C8: for every sample index, the point of the muon (mu-) track is the point
\* of the muon (mu+) track with x negated and y unchanged, and the point of
\* the photon pair's right-curving arm is the point of its left-curving arm
\* with x negated and y unchanged.
C8_ClockwiseMirrors ==
    /\ (ar.pc # "idle" /\ ar.call = draw_muminus_pts)
          => MirrorsCall(draw_muplus_pts)
    /\ (ar.pc # "idle" /\ ar.call = draw_gamma_pair_pts2)
          => MirrorsCall(draw_gamma_pair_pts1)

\* the angle a spiral call sweeps: +2*pi*turns counterclockwise, -2*pi*turns
\* clockwise
Sweep(c) ==
    IF c.ccw THEN QMul(N(2), QMul(pi, c.turns))
             ELSE QNeg(QMul(N(2), QMul(pi, c.turns)))

\* C9: a spiral call with npts >= 2 returns exactly npts points; the first is
\* at radius r_start and angle start_angle, the last at radius r_end and at
\* the angle start_angle + 2*pi*turns when counterclockwise and
\* start_angle - 2*pi*turns when clockwise; the angle and the radius of
\* sample i are linear in i, and each point is at its sample's radius and
\* angle from the center.
C9_SpiralShape ==
    (sp.pc \in {"loop", "returned"} /\ sp.call.npts >= 2) =>
        LET c  == sp.call
            n1 == N(c.npts - 1)
        IN  /\ Len(sp.pts) = sp.i
            /\ sp.i <= c.npts
            /\ (sp.pc = "returned" => Len(sp.pts) = c.npts)
            /\ (sp.i >= 1 =>
                  /\ sp.pts[1] = polar(c.center, c.r_start, c.start_angle)
                  /\ sp.pts[sp.i] = polar(c.center, sp.r, sp.th)
                  /\ QMul(QSub(sp.th, c.start_angle), n1)
                        = QMul(N(sp.i - 1), Sweep(c))
                  /\ QMul(QSub(sp.r, c.r_start), n1)
                        = QMul(N(sp.i - 1), QSub(c.r_end, c.r_start)))
            /\ (sp.pc = "returned" =>
                  /\ sp.r = c.r_end
                  /\ QSub(sp.th, c.start_angle) = Sweep(c)
                  /\ sp.pts[c.npts] =
                        polar(c.center, c.r_end,
                              QAdd(c.start_angle, Sweep(c))))

\* C9 witness: the clockwise spiral of the electron scenario has returned
C9_Witness ==
    /\ sp.pc = "returned" /\ sp.call = draw_eminus_pts
    /\ Len(sp.pts) = 500

\* the calls (x, y) -> (X, Y) of a to_canvas state agree with one affine map
\* of x alone and one of y alone, the latter decreasing
AffinePair(a, b) ==
    LET W == QSub(tc.width, QMul(N(2), tc.world.margin))
        H == QSub(tc.height, QMul(N(2), tc.world.margin))
    IN  /\ QMul(QSub(b.X, a.X), QSub(tc.world.xmax, tc.world.xmin))
              = QMul(QSub(b.x, a.x), W)
        /\ QMul(QSub(b.Y, a.Y), QSub(tc.world.ymax, tc.world.ymin))
              = QMul(QSub(a.y, b.y), H)

\* a viewport corner is mapped to the corner of the margin-inset rectangle,
\* the vertical axis flipped
CornerMapped(c) ==
    /\ (c.x = tc.world.xmin => c.X = tc.world.margin)
    /\ (c.x = tc.world.xmax => c.X = QSub(tc.width, tc.world.margin))
    /\ (c.y = tc.world.ymax => c.Y = tc.world.margin)
    /\ (c.y = tc.world.ymin => c.Y = QSub(tc.height, tc.world.margin))

\* C10: for every world with xmax > xmin, ymax > ymin and margin >= 0 and
\* every canvas size, to_canvas is affine in x and in y independently, and
\* maps (xmin, ymax) to (margin, margin), (xmax, ymax) to
\* (width - margin, margin), (xmin, ymin) to (margin, height - margin) and
\* (xmax, ymin) to (width - margin, height - margin).
C10_AffineCorners ==
    tc.pc = "ready" =>
        /\ \A k \in 1..Len(tc.calls) : CornerMapped(tc.calls[k])
        /\ (Len(tc.calls) = 2 => AffinePair(tc.calls[1], tc.calls[2]))

\* C10 witness: the default world's top-left and bottom-right corners mapped
\* onto the 720 x 680 canvas
C10_Witness ==
    /\ tc.pc = "ready" /\ tc.world = World
    /\ tc.width = N(720) /\ tc.height = N(680)
    /\ Len(tc.calls) = 2
    /\ tc.calls[1] = [x |-> N(-10), y |-> N(10), X |-> N(40), Y |-> N(40)]
    /\ tc.calls[2] = [x |-> N(10), y |-> N(-10), X |-> N(680), Y |-> N(640)]

=============================================================================
